---- MODULE Spec2Model ----
(***************************************************************************)
(* Change-detection job pipeline of the Mumbai Geo-AI backend:             *)
(*   - JobService (job rows and their status updates),                     *)
(*   - QueueService (the RQ queue of worker tasks),                        *)
(*   - the jobs endpoints (create, status patch, cancel),                  *)
(*   - the worker task process_change_detection_job,                       *)
(*   - STACService (imagery search and pair selection),                    *)
(*   - MLService (the fallback change map and postprocess_results),        *)
(*   - ValidationService (protected zones and validate_detections).        *)
(***************************************************************************)
EXTENDS Integers, Sequences, FiniteSets, TLC

VARIABLES
    jobs,             \* job table: job id -> row, or NoJob
    queue,            \* RQ list 'ml_processing': sequence of RQ job ids
    pc,               \* worker -> position inside process_change_detection_job
    wjob,             \* worker -> job id argument of the running task
    err,              \* worker -> str(e) of the exception caught by the task
    cog_url,          \* worker -> local cog_url
    vector_url,       \* worker -> local vector_url
    satellite_type,   \* worker -> local satellite_type
    outcome,          \* worker -> how its last task ended
    now,              \* datetime.utcnow()
    catalog,          \* items the STAC catalog holds, in the order it returns them
    cancel_requested, \* job id -> the cancel endpoint answered 200 while PROCESSING
    query,            \* arguments of a direct get_best_imagery_pair call
    selected,         \* result of that call
    model_loaded,     \* MLService.model_loaded
    before_data,      \* before image of a direct call of the ML service
    change_map,       \* change map that call works on or returned
    min_area_sqm,     \* min_area_sqm argument of direct postprocess_results calls
    extracted,        \* confidence_threshold -> detections postprocess_results returned
    geojson_data,     \* features of the file settings.PROTECTED_ZONES_GEOJSON
    protected_zones,  \* ValidationService.protected_zones
    detections,       \* detections argument of a direct validate_detections call
    aoi_geometry,     \* aoi_geometry argument of that call
    validated,        \* what that call returned
    revalidated       \* what validate_detections returned for that result

\* The state of the ML service and of the validation service.
mlvars == <<model_loaded, before_data, change_map, min_area_sqm, extracted>>
valvars == <<geojson_data, protected_zones, detections, aoi_geometry, validated,
             revalidated>>
svc == <<mlvars, valvars>>

\* The state of the job pipeline and of pair selection.
jobvars == <<jobs, queue, pc, wjob, err, cog_url, vector_url, satellite_type,
             outcome, now, catalog, cancel_requested, query, selected>>

vars == <<jobvars, svc>>

(***************************************************************************)
(* Bounds of the model.                                                    *)
(***************************************************************************)
MaxItems == 3     \* items in the catalog
MaxQueue == 2     \* entries of the RQ list
MaxClock == 1     \* ticks of the clock

\* Optional values: None is the empty tuple, a present value v is Some(v).
None == <<>>
Some(v) == <<v>>

(***************************************************************************)
(* STACService                                                             *)
(***************************************************************************)
OPTICAL == "sentinel-2-l2a"
SAR == "sentinel-1-grd"

OpticalWindowDays == 7
SarWindowDays == 10
DefaultCloudCoverMax == 20

\* Acquisition days, cloud covers and queries the model draws from.
Days == {2, 10, 14, 31, 41}
CloudCovers == {5, 20}
DefaultQuery == [date_from |-> 10, date_to |-> 40, cloud_cover_max |-> 20]
OverlapQuery == [date_from |-> 10, date_to |-> 12, cloud_cover_max |-> 20]
Queries == {DefaultQuery, OverlapQuery}

\* A catalog item: collection, acquisition day, eo:cloud_cover. An optical
\* item carries a cloud cover, a SAR item has none.
CatalogItem(c, d, cc) == <<c, d, cc>>

ItemKinds == ({OPTICAL} \X Days \X CloudCovers) \cup ({SAR} \X Days \X {None})

\* The catalogs: the items in the order the catalog returns them.
Catalogs == UNION { [1..n -> ItemKinds] : n \in 0..MaxItems }

\* The item_info dictionary search_imagery builds for the item at position i;
\* the position serves as the item's id.
item_info(cat, i) ==
    [id |-> i, collection |-> cat[i][1], datetime |-> cat[i][2],
     cloud_cover |-> cat[i][3]]

\* "sentinel-2" in str(collections)
IsOptical(collection) == collection = OPTICAL

\* The sort key of search_imagery: cloud cover for optical, datetime for SAR.
SortKey(x, collection) ==
    IF IsOptical(collection) THEN x.cloud_cover ELSE x.datetime

\* list.sort(key=...): a stable insertion sort.
RECURSIVE InsertByKey(_, _, _)
InsertByKey(x, s, collection) ==
    IF s = <<>> THEN <<x>>
    ELSE IF SortKey(x, collection) < SortKey(Head(s), collection) THEN <<x>> \o s
         ELSE <<Head(s)>> \o InsertByKey(x, Tail(s), collection)

RECURSIVE SortByKey(_, _)
SortByKey(s, collection) ==
    IF s = <<>> THEN <<>>
    ELSE InsertByKey(s[Len(s)], SortByKey(SubSeq(s, 1, Len(s) - 1), collection),
                     collection)

search_imagery(cat, date_from, date_to, collection, cloud_cover_max) ==
    LET Matches(x) ==
            /\ x.collection = collection
            /\ date_from <= x.datetime /\ x.datetime <= date_to
            /\ IsOptical(collection) => x.cloud_cover < cloud_cover_max
        items == [i \in DOMAIN cat |-> item_info(cat, i)]
        results == SelectSeq(items, Matches)
    IN  SortByKey(results, collection)

NotFound == [before |-> None, after |-> None, satellite_type |-> "none"]

\* get_best_imagery_pair with the SAR pair tried before the optical pair.
get_best_imagery_pair_sar_first(cat, date_from, date_to, cloud_cover_max) ==
    LET before_search == search_imagery(cat, date_from - OpticalWindowDays,
                             date_from + OpticalWindowDays, OPTICAL, cloud_cover_max)
        after_search == search_imagery(cat, date_to - OpticalWindowDays,
                             date_to + OpticalWindowDays, OPTICAL, cloud_cover_max)
        before_sar == search_imagery(cat, date_from - SarWindowDays,
                             date_from + SarWindowDays, SAR, DefaultCloudCoverMax)
        after_sar == search_imagery(cat, date_to - SarWindowDays,
                             date_to + SarWindowDays, SAR, DefaultCloudCoverMax)
    IN  IF before_sar # <<>> /\ after_sar # <<>>
        THEN [before |-> before_sar[1], after |-> after_sar[1],
              satellite_type |-> "sentinel-1"]
        ELSE IF before_search # <<>> /\ after_search # <<>>
        THEN [before |-> before_search[1], after |-> after_search[1],
              satellite_type |-> "sentinel-2"]
        ELSE NotFound

get_best_imagery_pair(cat, date_from, date_to, cloud_cover_max) ==
    LET before_search == search_imagery(cat, date_from - OpticalWindowDays,
                             date_from + OpticalWindowDays, OPTICAL, cloud_cover_max)
        after_search == search_imagery(cat, date_to - OpticalWindowDays,
                             date_to + OpticalWindowDays, OPTICAL, cloud_cover_max)
        before_sar == search_imagery(cat, date_from - SarWindowDays,
                             date_from + SarWindowDays, SAR, DefaultCloudCoverMax)
        after_sar == search_imagery(cat, date_to - SarWindowDays,
                             date_to + SarWindowDays, SAR, DefaultCloudCoverMax)
    IN  IF before_search # <<>> /\ after_search # <<>>
        THEN [before |-> before_search[1], after |-> after_search[1],
              satellite_type |-> "sentinel-2"]
        ELSE IF before_sar # <<>> /\ after_sar # <<>>
        THEN [before |-> before_sar[1], after |-> after_sar[1],
              satellite_type |-> "sentinel-1"]
        ELSE NotFound

(***************************************************************************)
(* JobService                                                              *)
(***************************************************************************)
JobIds == {"1"}
Workers == {"w1", "w2"}

PENDING == "PENDING"
PROCESSING == "PROCESSING"
COMPLETED == "COMPLETED"
FAILED == "FAILED"
JobStatus == {PENDING, PROCESSING, COMPLETED, FAILED}

\* The row create_job inserts.
NewJob(q) ==
    [status |-> PENDING, progress |-> 0, error_message |-> None,
     result_cog_url |-> None, vector_results_url |-> None,
     started_at |-> None, completed_at |-> None,
     date_from |-> q.date_from, date_to |-> q.date_to,
     cloud_cover_threshold |-> q.cloud_cover_max]

\* A JobStatusUpdate.
StatusUpdate(st, pr, em, cu, vu) ==
    [status |-> st, progress |-> pr, error_message |-> em,
     result_cog_url |-> cu, vector_results_url |-> vu]

\* The row update_job_status commits for an existing row at time t.
update_job_status(job, status_update, t) ==
    LET j1 == IF status_update.status # None /\ status_update.status[1] \in JobStatus
              THEN [job EXCEPT !.status = status_update.status[1]] ELSE job
        j2 == IF status_update.progress # None
              THEN [j1 EXCEPT !.progress = status_update.progress[1]] ELSE j1
        j3 == IF status_update.error_message # None
              THEN [j2 EXCEPT !.error_message = status_update.error_message] ELSE j2
        j4 == IF status_update.result_cog_url # None
              THEN [j3 EXCEPT !.result_cog_url = status_update.result_cog_url] ELSE j3
        j5 == IF status_update.vector_results_url # None
              THEN [j4 EXCEPT !.vector_results_url = status_update.vector_results_url]
              ELSE j4
    IN  IF status_update.status = Some(PROCESSING) /\ j5.started_at = None
        THEN [j5 EXCEPT !.started_at = Some(t)]
        ELSE IF status_update.status \in {Some(COMPLETED), Some(FAILED)}
                /\ j5.completed_at = None
        THEN [j5 EXCEPT !.completed_at = Some(t),
                        !.progress = IF status_update.status = Some(COMPLETED)
                                     THEN 100 ELSE @]
        ELSE j5

\* The row save_detection_results commits: one update_job_status call.
save_detection_results(job, result_cog_url, vector_results_url, t) ==
    update_job_status(job,
        StatusUpdate(Some(COMPLETED), Some(100), None,
                     Some(result_cog_url), Some(vector_results_url)), t)

\* The row mark_job_failed commits.
mark_job_failed(job, error_message, t) ==
    [job EXCEPT !.status = FAILED, !.error_message = Some(error_message),
                !.completed_at = Some(t), !.progress = 0]

\* db.query(Job).filter(Job.id == job_id).first() is not None
Exists(j) == j \in DOMAIN jobs

\* Ids of the PENDING rows.
get_pending_jobs == {j \in DOMAIN jobs : jobs[j].status = PENDING}

(***************************************************************************)
(* QueueService                                                            *)
(***************************************************************************)
\* The RQ job queue.enqueue creates: its id and the task argument.
QueueEntry(job_id) == [id |-> "change_detection_" \o job_id, args |-> job_id]

enqueue_change_detection_job(q, job_id) == Append(q, QueueEntry(job_id))

\* QueueService.cancel_job: Job.fetch(queue_job_id) then job.cancel(); a failed
\* fetch is caught and leaves the queue as it is.
queue_cancel_job(q, queue_job_id) ==
    LET Other(e) == e.id # queue_job_id IN SelectSeq(q, Other)

(***************************************************************************)
(* Inputs of the endpoints                                                 *)
(***************************************************************************)
CancelledByUser == "Job cancelled by user"
NoImagery == "No suitable imagery found for the specified dates and area"
SaveFailed == "Failed to save results to database"
StageError == "stage error"
FailurePrefix == "Job processing failed: "
\* str(e) of the AttributeError run_change_detection raises without a model.
NoFallbackMethod ==
    "'MLService' object has no attribute '_simple_difference_detection'"
\* str(e) of the JobTimeoutException RQ raises inside a task that runs longer
\* than the job_timeout it was enqueued with (timeout: int = 3600).
JobTimeoutError == "Task exceeded maximum timeout value (3600 seconds)"

\* Requested statuses of a status patch: the enum members and a string that
\* is no member.
PatchStatuses == {Some(s) : s \in JobStatus} \cup {Some("CANCELLED")}
PatchProgress == {None, Some(60)}
MarkFailedMessages == {"worker lost"}
JobQueries == {DefaultQuery}

EmptyCatalog == <<>>
OpticalCatalog == <<CatalogItem(OPTICAL, 10, 5), CatalogItem(OPTICAL, 41, 5)>>
SarCatalog == <<CatalogItem(SAR, 2, None), CatalogItem(SAR, 31, None)>>
JobCatalogs == {EmptyCatalog, OpticalCatalog, SarCatalog}

(***************************************************************************)
(* Endpoints and service calls                                             *)
(***************************************************************************)
\* Some worker is inside the task for job j, past the task's first update.
InRun(j) == \E w \in Workers : pc[w] \notin {"idle", "start"} /\ wjob[w] = Some(j)

\* POST /jobs: create_job then enqueue; a failed enqueue leaves the job
\* created and not queued.
CreateJob(j, q, queued) ==
    /\ ~Exists(j)
    /\ queued => Len(queue) < MaxQueue
    /\ jobs' = [x \in DOMAIN jobs \cup {j} |-> IF x = j THEN NewJob(q) ELSE jobs[x]]
    /\ queue' = IF queued THEN enqueue_change_detection_job(queue, j) ELSE queue
    /\ UNCHANGED <<pc, wjob, err, cog_url, vector_url, satellite_type, outcome,
                   now, catalog, cancel_requested, query, selected, svc>>

\* A job of the pending list is handed to enqueue_change_detection_job.
RequeuePending(j) ==
    /\ j \in get_pending_jobs
    /\ Len(queue) < MaxQueue
    /\ queue' = enqueue_change_detection_job(queue, j)
    /\ UNCHANGED <<jobs, pc, wjob, err, cog_url, vector_url, satellite_type,
                   outcome, now, catalog, cancel_requested, query, selected, svc>>

\* PATCH /jobs/{job_id}/status
PatchStatus(j, status_update) ==
    /\ Exists(j)
    /\ jobs' = [jobs EXCEPT ![j] = update_job_status(@, status_update, now)]
    /\ UNCHANGED <<queue, pc, wjob, err, cog_url, vector_url, satellite_type,
                   outcome, now, catalog, cancel_requested, query, selected, svc>>

\* DELETE /jobs/{job_id}
cancel_job(j) ==
    /\ Exists(j)
    /\ jobs[j].status # COMPLETED
    /\ queue' = IF jobs[j].status = PENDING THEN queue_cancel_job(queue, j) ELSE queue
    /\ jobs' = [jobs EXCEPT ![j] = update_job_status(@,
                    StatusUpdate(Some(FAILED), None, Some(CancelledByUser), None, None),
                    now)]
    /\ cancel_requested' =
           [cancel_requested EXCEPT ![j] = @ \/ (jobs[j].status = PROCESSING /\ InRun(j))]
    /\ UNCHANGED <<pc, wjob, err, cog_url, vector_url, satellite_type, outcome,
                   now, catalog, query, selected, svc>>

\* JobService.mark_job_failed
MarkJobFailed(j, error_message) ==
    /\ Exists(j)
    /\ jobs' = [jobs EXCEPT ![j] = mark_job_failed(@, error_message, now)]
    /\ UNCHANGED <<queue, pc, wjob, err, cog_url, vector_url, satellite_type,
                   outcome, now, catalog, cancel_requested, query, selected, svc>>

\* datetime.utcnow() advances.
Tick ==
    /\ now < MaxClock
    /\ now' = now + 1
    /\ UNCHANGED <<jobs, queue, pc, wjob, err, cog_url, vector_url, satellite_type,
                   outcome, catalog, cancel_requested, query, selected, svc>>

(***************************************************************************)
(* Worker task process_change_detection_job                                *)
(***************************************************************************)
\* Positions of the task whose statement can raise into the except block.
RaisingStages == {"bbox", "search", "load_before", "load_after", "infer",
                  "validate", "save_cog", "save_geojson", "final"}

Stages == RaisingStages \cup {"start", "save_db"}

\* job_service.update_job_status(job_id, status, progress=..., error_message=...)
\* as called by the task: no row, no change.
WorkerUpdate(j, st, pr, em) ==
    jobs' = IF Exists(j)
            THEN [jobs EXCEPT ![j] =
                     update_job_status(@, StatusUpdate(Some(st), pr, em, None, None), now)]
            ELSE jobs

\* The task moves on to position p.
Goto(w, p) == pc' = [pc EXCEPT ![w] = p]

\* The statement at the current position raises e.
Raise(w, e) ==
    /\ err' = [err EXCEPT ![w] = Some(e)]
    /\ Goto(w, "handler")

\* A worker takes the next task off the queue.
Dequeue(w) ==
    /\ pc[w] = "idle"
    /\ queue # <<>>
    /\ queue' = Tail(queue)
    /\ wjob' = [wjob EXCEPT ![w] = Some(Head(queue).args)]
    /\ outcome' = [outcome EXCEPT ![w] = "running"]
    /\ Goto(w, "start")
    /\ UNCHANGED <<jobs, err, cog_url, vector_url, satellite_type, now, catalog,
                   cancel_requested, query, selected, svc>>

\* update_job_status(PROCESSING, 0.0); get_job_details
Start(w) ==
    /\ pc[w] = "start"
    /\ WorkerUpdate(wjob[w][1], PROCESSING, Some(0), None)
    /\ IF Exists(wjob[w][1])
       THEN Goto(w, "bbox") /\ UNCHANGED err
       ELSE Raise(w, "Job " \o wjob[w][1] \o " not found")
    /\ UNCHANGED <<queue, wjob, cog_url, vector_url, satellite_type, outcome, now,
                   catalog, cancel_requested, query, selected, svc>>

\* A stage that returned, followed by its update_job_status(PROCESSING, progress).
Checkpoint(w, from, progress, to) ==
    /\ pc[w] = from
    /\ WorkerUpdate(wjob[w][1], PROCESSING, Some(progress), None)
    /\ Goto(w, to)

\* Step 1: _get_bbox_from_geometry
Bbox(w) ==
    /\ Checkpoint(w, "bbox", 10, "search")
    /\ UNCHANGED <<queue, wjob, err, cog_url, vector_url, satellite_type, outcome,
                   now, catalog, cancel_requested, query, selected, svc>>

\* Step 2 without the test of the returned pair.
SearchWithoutTest(w) ==
    /\ pc[w] = "search"
    /\ Exists(wjob[w][1])
    /\ LET job == jobs[wjob[w][1]]
           pair == get_best_imagery_pair(catalog, job.date_from, job.date_to,
                                         job.cloud_cover_threshold)
       IN  /\ satellite_type' = [satellite_type EXCEPT ![w] = pair.satellite_type]
           /\ WorkerUpdate(wjob[w][1], PROCESSING, Some(20), None)
           /\ Goto(w, "load_before")
           /\ UNCHANGED err
    /\ UNCHANGED <<queue, wjob, cog_url, vector_url, outcome, now, catalog,
                   cancel_requested, query, selected, svc>>

\* Step 2: get_best_imagery_pair with the job's dates and cloud threshold
Search(w) ==
    /\ pc[w] = "search"
    /\ Exists(wjob[w][1])
    /\ LET job == jobs[wjob[w][1]]
           pair == get_best_imagery_pair(catalog, job.date_from, job.date_to,
                                         job.cloud_cover_threshold)
       IN  IF pair.before = None \/ pair.after = None
           THEN /\ Raise(w, NoImagery)
                /\ UNCHANGED <<jobs, satellite_type>>
           ELSE /\ satellite_type' = [satellite_type EXCEPT ![w] = pair.satellite_type]
                /\ WorkerUpdate(wjob[w][1], PROCESSING, Some(20), None)
                /\ Goto(w, "load_before")
                /\ UNCHANGED err
    /\ UNCHANGED <<queue, wjob, cog_url, vector_url, outcome, now, catalog,
                   cancel_requested, query, selected, svc>>

\* Step 3: load_and_clip_image(before_image)
LoadBefore(w) ==
    /\ Checkpoint(w, "load_before", 35, "load_after")
    /\ UNCHANGED <<queue, wjob, err, cog_url, vector_url, satellite_type, outcome,
                   now, catalog, cancel_requested, query, selected, svc>>

\* Step 3: load_and_clip_image(after_image)
LoadAfter(w) ==
    /\ Checkpoint(w, "load_after", 50, "infer")
    /\ UNCHANGED <<queue, wjob, err, cog_url, vector_url, satellite_type, outcome,
                   now, catalog, cancel_requested, query, selected, svc>>

\* Step 4: run_change_detection. Without a loaded model it calls
\* self._simple_difference_detection, which is defined outside the class body:
\* the call raises AttributeError.
Infer(w) ==
    /\ pc[w] = "infer"
    /\ IF model_loaded
       THEN /\ WorkerUpdate(wjob[w][1], PROCESSING, Some(75), None)
            /\ Goto(w, "validate")
            /\ UNCHANGED err
       ELSE /\ Raise(w, NoFallbackMethod)
            /\ UNCHANGED jobs
    /\ UNCHANGED <<queue, wjob, cog_url, vector_url, satellite_type, outcome,
                   now, catalog, cancel_requested, query, selected, svc>>

\* Step 5 followed by the update of step 4.
ValidateRepeatingProgress(w) ==
    /\ Checkpoint(w, "validate", 75, "save_cog")
    /\ UNCHANGED <<queue, wjob, err, cog_url, vector_url, satellite_type, outcome,
                   now, catalog, cancel_requested, query, selected, svc>>

\* Step 5: validate_detections
Validate(w) ==
    /\ Checkpoint(w, "validate", 85, "save_cog")
    /\ UNCHANGED <<queue, wjob, err, cog_url, vector_url, satellite_type, outcome,
                   now, catalog, cancel_requested, query, selected, svc>>

\* Step 6: save_cog
SaveCog(w) ==
    /\ pc[w] = "save_cog"
    /\ cog_url' = [cog_url EXCEPT
                      ![w] = Some("change_detection_" \o wjob[w][1] \o ".tif")]
    /\ Goto(w, "save_geojson")
    /\ UNCHANGED <<jobs, queue, wjob, err, vector_url, satellite_type, outcome, now,
                   catalog, cancel_requested, query, selected, svc>>

\* Step 6: save_geojson
SaveGeojson(w) ==
    /\ pc[w] = "save_geojson"
    /\ vector_url' = [vector_url EXCEPT
                         ![w] = Some("detections_" \o wjob[w][1] \o ".geojson")]
    /\ Goto(w, "save_db")
    /\ UNCHANGED <<jobs, queue, wjob, err, cog_url, satellite_type, outcome, now,
                   catalog, cancel_requested, query, selected, svc>>

\* Step 7: save_detection_results; it returns False when the row is missing
\* or its commit fails and is rolled back.
SaveDb(w, committed) ==
    /\ pc[w] = "save_db"
    /\ IF committed /\ Exists(wjob[w][1])
       THEN /\ jobs' = [jobs EXCEPT ![wjob[w][1]] =
                           save_detection_results(@, cog_url[w][1], vector_url[w][1], now)]
            /\ Goto(w, "final")
            /\ UNCHANGED err
       ELSE /\ Raise(w, SaveFailed)
            /\ UNCHANGED jobs
    /\ UNCHANGED <<queue, wjob, cog_url, vector_url, satellite_type, outcome, now,
                   catalog, cancel_requested, query, selected, svc>>

\* The locals of a task that has ended.
EndTask(w, how) ==
    /\ outcome' = [outcome EXCEPT ![w] = how]
    /\ wjob' = [wjob EXCEPT ![w] = None]
    /\ err' = [err EXCEPT ![w] = None]
    /\ cog_url' = [cog_url EXCEPT ![w] = None]
    /\ vector_url' = [vector_url EXCEPT ![w] = None]
    /\ satellite_type' = [satellite_type EXCEPT ![w] = "none"]
    /\ cancel_requested' = [j \in JobIds |->
           cancel_requested[j] /\ \E v \in Workers \ {w} : pc[v] # "idle" /\ wjob[v] = Some(j)]
    /\ Goto(w, "idle")

\* update_job_status(COMPLETED, 100.0, model_version=...) and return
Final(w) ==
    /\ pc[w] = "final"
    /\ WorkerUpdate(wjob[w][1], COMPLETED, Some(100), None)
    /\ EndTask(w, "completed")
    /\ UNCHANGED <<queue, now, catalog, query, selected, svc>>

\* A stage raises an exception.
StageRaises(w) ==
    /\ pc[w] \in RaisingStages
    /\ Raise(w, StageError)
    /\ UNCHANGED <<jobs, queue, wjob, cog_url, vector_url, satellite_type, outcome,
                   now, catalog, cancel_requested, query, selected, svc>>

\* The task runs longer than its job_timeout: RQ raises JobTimeoutException
\* at the statement the task is executing.
JobTimeout(w) ==
    /\ pc[w] \in Stages
    /\ Raise(w, JobTimeoutError)
    /\ UNCHANGED <<jobs, queue, wjob, cog_url, vector_url, satellite_type, outcome,
                   now, catalog, cancel_requested, query, selected, svc>>

\* The except block with the status left out of its update.
HandleFailureWithoutStatus(w) ==
    /\ pc[w] = "handler"
    /\ WorkerUpdate(wjob[w][1], PROCESSING, None, Some(FailurePrefix \o err[w][1]))
    /\ EndTask(w, "raised")
    /\ UNCHANGED <<queue, now, catalog, query, selected, svc>>

\* except Exception as e: update_job_status(FAILED, error_message=...); raise e
HandleFailure(w) ==
    /\ pc[w] = "handler"
    /\ WorkerUpdate(wjob[w][1], FAILED, None, Some(FailurePrefix \o err[w][1]))
    /\ EndTask(w, "raised")
    /\ UNCHANGED <<queue, now, catalog, query, selected, svc>>

\* The except block when the commit of its update fails: update_job_status
\* rolls back, logs and returns None, the task ignores that and re-raises.
HandleFailureRolledBack(w) ==
    /\ pc[w] = "handler"
    /\ UNCHANGED jobs
    /\ EndTask(w, "raised")
    /\ UNCHANGED <<queue, now, catalog, query, selected, svc>>

(***************************************************************************)
(* Direct call of pair selection                                           *)
(***************************************************************************)
SelectPair ==
    /\ query # None
    /\ selected = None
    /\ selected' = Some(get_best_imagery_pair(catalog, query[1].date_from,
                            query[1].date_to, query[1].cloud_cover_max))
    /\ UNCHANGED <<jobs, queue, pc, wjob, err, cog_url, vector_url, satellite_type,
                   outcome, now, catalog, cancel_requested, query, svc>>

(***************************************************************************)
(* MLService: the fallback change map                                      *)
(***************************************************************************)
\* Probabilities and confidences are counted in hundredths.
\* Sides of the square images handed to the fallback, in pixels.
ImageSides == {8, 12}

\* Values np.random.randint(1, 4) is sampled at.
BlockCounts == {1, 2}

\* Values np.random.randint(10, 51) is sampled at.
BlockSizes == {10, 11, 12}

\* Values np.random.uniform(0.6, 0.95) is sampled at.
BlockConfidences == {60, 95}

\* Values np.random.normal(0, 0.05) is sampled at for the first pixel; the
\* noise of the other pixels is sampled at 0.
NoiseValues == {0, 5}

\* before_data.rio.resolution() of the images: 10 m pixels.
Resolution == <<10, -10>>

\* An image: its shape and its resolution.
Image(height, width) ==
    [height |-> height, width |-> width, resolution |-> Resolution]

\* np.clip(v, 0, 100)
clip(v) == IF v < 0 THEN 0 ELSE IF v > 100 THEN 100 ELSE v

\* The draws of one pass of the loop body that raise nothing: size, then x
\* in randint(0, width - size), then y in randint(0, height - size), then the
\* confidence.
BlockDraws(height, width) ==
    UNION { { [size |-> size, x |-> x, y |-> y, confidence |-> c] :
                  x \in 0..(width - size - 1), y \in 0..(height - size - 1),
                  c \in BlockConfidences } : size \in BlockSizes }

\* np.random.randint(0, n) raises ValueError when n <= 0.
DrawRaises(size, height, width) == width - size <= 0 \/ height - size <= 0

\* change_map[y:y+size, x:x+size] = confidence for the blocks in drawing
\* order, then the noise and the clip. Row r, column c count from 1.
BlockMap(height, width, blocks, noise) ==
    LET Covers(b, r, c) ==
            /\ b.y < r /\ r <= b.y + b.size
            /\ b.x < c /\ c <= b.x + b.size
        Last(r, c) ==
            LET hits == {i \in DOMAIN blocks : Covers(blocks[i], r, c)}
            IN  IF hits = {} THEN 0
                ELSE blocks[CHOOSE i \in hits : \A k \in hits : k <= i].confidence
    IN  [r \in 1..height |->
            [c \in 1..width |->
                clip(Last(r, c) + IF r = 1 /\ c = 1 THEN noise ELSE 0)]]

\* What a call returned: a value, or the exception it raised.
Returned(v) == [raised |-> FALSE, value |-> v]
Raised(e) == [raised |-> TRUE, value |-> e]

\* _simple_difference_detection(self, before_data, after_data) of the worker's
\* ml_service module: num_changes blocks at random places, noise, clip; an
\* exception is logged and raised again.
simple_difference_detection ==
    /\ before_data # None
    /\ LET height == before_data[1].height
           width == before_data[1].width
       IN  \/ \E num_changes \in BlockCounts :
              \E blocks \in [1..num_changes -> BlockDraws(height, width)] :
              \E noise \in NoiseValues :
                  change_map' = Some(Returned(BlockMap(height, width, blocks, noise)))
           \/ /\ \E size \in BlockSizes : DrawRaises(size, height, width)
              /\ change_map' = Some(Raised(<<"ValueError: low >= high">>))
    /\ UNCHANGED <<jobvars, model_loaded, before_data, min_area_sqm, extracted,
                   valvars>>

(***************************************************************************)
(* MLService: postprocess_results                                          *)
(***************************************************************************)
MaxCols == 3         \* columns of the change maps handed to postprocess_results

RasterRows == {1, 2}
ProbValues == {30, 60, 90}
Thresholds == {50, 80}
MinAreas == {25, 200}

\* GeoJSON geometry dictionaries; shape() raises for one of unknown type.
Polygon(cells) == [type |-> "Polygon", coordinates |-> cells]

\* The detection dictionary of postprocess_results.
Detection(geometry, confidence_score, area_sqm, change_type) ==
    [geometry |-> geometry, confidence_score |-> confidence_score,
     area_sqm |-> area_sqm, change_type |-> change_type,
     flagged |-> FALSE, flag_reasons |-> <<>>]

\* The change maps of a shape: rows of probabilities.
Rasters(height, width) == [1..height -> [1..width -> ProbValues]]

Pixels(raster) ==
    {<<r, c>> : r \in DOMAIN raster, c \in 1..(IF raster = <<>> THEN 0 ELSE Len(raster[1]))}

abs(n) == IF n < 0 THEN -n ELSE n

\* Neighbours: all eight for connectivity 2 (the default of
\* skimage.measure.label), the four edge neighbours for connectivity 1 (the
\* default of rasterio.features.shapes).
Adjacent(p, q, connectivity) ==
    /\ p # q
    /\ abs(p[1] - q[1]) <= 1
    /\ abs(p[2] - q[2]) <= 1
    /\ connectivity = 1 => abs(p[1] - q[1]) + abs(p[2] - q[2]) = 1

\* Raster scan order.
Before(p, q) == p[1] < q[1] \/ (p[1] = q[1] /\ p[2] < q[2])

First(cells) == CHOOSE p \in cells : \A q \in cells : p = q \/ Before(p, q)

RECURSIVE Grow(_, _, _)
Grow(region, cells, connectivity) ==
    LET next == {q \in cells \ region :
                    \E p \in region : Adjacent(p, q, connectivity)}
    IN  IF next = {} THEN region ELSE Grow(region \cup next, cells, connectivity)

\* The connected components of a set of pixels, in the order of their first
\* pixel.
RECURSIVE Components(_, _)
Components(cells, connectivity) ==
    IF cells = {} THEN <<>>
    ELSE LET region == Grow({First(cells)}, cells, connectivity)
         IN  <<region>> \o Components(cells \ region, connectivity)

\* regionprops(label(binary_mask)): the regions in label order.
label(binary_mask) == Components(binary_mask, 2)

RECURSIVE Intensity(_, _)
Intensity(raster, cells) ==
    IF cells = {} THEN 0
    ELSE LET p == First(cells)
         IN  raster[p[1]][p[2]] + Intensity(raster, cells \ {p})

\* rasterio.features.shapes(mask.astype(np.uint8)): one polygon per
\* 4-connected patch of equal value, the patches of value 0 included.
shapes(region, pixels) ==
    Components(region, 1) \o Components(pixels \ region, 1)

\* max(polygons, key=area): the first polygon of the largest area.
largest_poly(polygons) ==
    LET best == CHOOSE i \in DOMAIN polygons :
                    /\ \A k \in DOMAIN polygons :
                           Cardinality(polygons[k]) <= Cardinality(polygons[i])
                    /\ \A k \in 1..(i - 1) :
                           Cardinality(polygons[k]) < Cardinality(polygons[i])
    IN  polygons[best]

\* The loop over the regions: the detections of the regions whose area_sqm is
\* not below `minimum`. confidence_score is the mean intensity, rounded down
\* to hundredths; change_type compares the mean itself with 0.8.
region_detections(raster, image, binary_mask, minimum) ==
    LET regions == label(binary_mask)
        pixel_area == abs(image.resolution[1] * image.resolution[2])
        area_sqm(i) == Cardinality(regions[i]) * pixel_area
        Kept(i) == ~(area_sqm(i) < minimum)
        kept == SelectSeq([i \in DOMAIN regions |-> i], Kept)
        detection(i) ==
            LET total == Intensity(raster, regions[i])
                area == Cardinality(regions[i])
            IN  Detection(Polygon(largest_poly(shapes(regions[i], Pixels(raster)))),
                          total \div area, area_sqm(i),
                          IF total > 80 * area THEN "new_construction" ELSE "unknown")
    IN  [k \in DOMAIN kept |-> detection(kept[k])]

\* postprocess_results with regions of exactly min_area_sqm filtered out
\* (area_sqm <= min_area_sqm).
postprocess_results_strict(raster, image, confidence_threshold, min_area) ==
    region_detections(raster, image,
        {p \in Pixels(raster) : raster[p[1]][p[2]] > confidence_threshold},
        min_area + 1)

\* postprocess_results with the threshold test turned round
\* (change_map < confidence_threshold).
postprocess_results_below(raster, image, confidence_threshold, min_area) ==
    region_detections(raster, image,
        {p \in Pixels(raster) : raster[p[1]][p[2]] < confidence_threshold},
        min_area)

\* postprocess_results(change_map, before_data, confidence_threshold,
\* min_area_sqm)["detections"]
postprocess_results(raster, image, confidence_threshold, min_area) ==
    region_detections(raster, image,
        {p \in Pixels(raster) : raster[p[1]][p[2]] > confidence_threshold},
        min_area)

\* A direct call of postprocess_results on the change map.
PostprocessResults(confidence_threshold) ==
    /\ change_map # None
    /\ ~change_map[1].raised
    /\ before_data # None
    /\ extracted[confidence_threshold] = None
    /\ extracted' = [extracted EXCEPT ![confidence_threshold] =
           Some(postprocess_results(change_map[1].value, before_data[1],
                                    confidence_threshold, min_area_sqm))]
    /\ UNCHANGED <<jobvars, model_loaded, before_data, change_map, min_area_sqm,
                   valvars>>

(***************************************************************************)
(* ValidationService                                                       *)
(***************************************************************************)
MaxZones == 2        \* features in the protected zones file
MaxDetections == 2   \* detections handed to validate_detections

\* A geometry covers cells of the plane; two geometries intersect when they
\* share a cell.
Cells == {1, 2}
ZoneTypes == {"FOREST", "WETLAND"}

Malformed == [type |-> "Unknown", coordinates |-> {}]
Polygons == {Polygon(c) : c \in (SUBSET Cells) \ {{}}}

ShapeRaises(geometry) == geometry.type # "Polygon"

\* shape(geometry) of a geometry it accepts
shape(geometry) == geometry.coordinates

intersects(a, b) == a \cap b # {}

\* A feature of the zones file.
Feature(geometry, zone_type) ==
    [geometry |-> geometry, properties |-> [zone_type |-> zone_type]]

Features == {Feature(g, t) : g \in Polygons, t \in ZoneTypes}

ZoneFiles == UNION { [1..n -> Features] : n \in 0..MaxZones }

DetectionInputs == {Detection(g, 90, 100, "new_construction") : g \in Polygons}

DetectionLists == UNION { [1..n -> DetectionInputs] : n \in 0..MaxDetections }

\* _load_protected_zones: the module never imports os, so os.path.exists
\* raises NameError inside the try block; the except clause logs it and
\* returns the empty list, whatever the file holds.
load_protected_zones(features) == <<>>

\* validate_detections with the early return handing back the still empty
\* validated_detections list.
validate_detections_returning_validated(dets, aoi, zones) ==
    IF ShapeRaises(aoi) THEN dets
    ELSE
        LET aoig == shape(aoi)
            Relevant(zone) == intersects(zone, aoig)
            relevant_zones == SelectSeq(zones, Relevant)
        IN  IF relevant_zones = <<>> THEN <<>> ELSE dets

\* validate_detections with is_in_protected_zone starting as True and no
\* early return.
validate_detections_flagging(dets, aoi, zones) ==
    IF ShapeRaises(aoi) THEN dets
    ELSE [i \in DOMAIN dets |-> [dets[i] EXCEPT !.flagged = TRUE]]

\* validate_detections with the early return noting on every detection that
\* no zone was found.
validate_detections_noting(dets, aoi, zones) ==
    IF ShapeRaises(aoi) THEN dets
    ELSE [i \in DOMAIN dets |->
             [dets[i] EXCEPT !.flag_reasons = Append(@, "No protected zones")]]

\* validate_detections with an except clause that flags every detection it
\* could not check.
validate_detections_failing_closed(dets, aoi, zones) ==
    IF ShapeRaises(aoi)
    THEN [i \in DOMAIN dets |->
             [dets[i] EXCEPT !.flagged = TRUE,
                             !.flag_reasons = <<"Validation failed">>]]
    ELSE
        LET aoig == shape(aoi)
            Relevant(zone) == intersects(zone, aoig)
            relevant_zones == SelectSeq(zones, Relevant)
            is_in_protected_zone(d) ==
                \E i \in DOMAIN relevant_zones :
                    intersects(shape(d.geometry), relevant_zones[i])
        IN  IF relevant_zones = <<>> THEN dets
            ELSE IF \E i \in DOMAIN dets :
                        \/ ShapeRaises(dets[i].geometry)
                        \/ is_in_protected_zone(dets[i])
                 THEN dets
                 ELSE [i \in DOMAIN dets |->
                          [dets[i] EXCEPT !.flagged = FALSE, !.flag_reasons = <<>>]]

\* validate_detections: an exception raised inside the try block (shape() of
\* a malformed geometry; the KeyError of zone.__geo_interface__['properties'],
\* a key shapely polygons do not have) returns the detections it was given.
validate_detections(dets, aoi, zones) ==
    IF ShapeRaises(aoi) THEN dets
    ELSE
        LET aoig == shape(aoi)
            Relevant(zone) == intersects(zone, aoig)
            relevant_zones == SelectSeq(zones, Relevant)
            is_in_protected_zone(d) ==
                \E i \in DOMAIN relevant_zones :
                    intersects(shape(d.geometry), relevant_zones[i])
        IN  IF relevant_zones = <<>> THEN dets
            ELSE IF \E i \in DOMAIN dets :
                        \/ ShapeRaises(dets[i].geometry)
                        \/ is_in_protected_zone(dets[i])
                 THEN dets
                 ELSE [i \in DOMAIN dets |->
                          [dets[i] EXCEPT !.flagged = FALSE, !.flag_reasons = <<>>]]

\* validation_service.validate_detections(detections, aoi_geometry)
ValidateDetections ==
    /\ detections # None
    /\ validated = None
    /\ validated' = Some(validate_detections(detections[1], aoi_geometry,
                                             protected_zones))
    /\ UNCHANGED <<jobvars, mlvars, geojson_data, protected_zones, detections,
                   aoi_geometry, revalidated>>

\* validate_detections applied to the list it returned.
ValidateAgain ==
    /\ validated # None
    /\ revalidated = None
    /\ revalidated' = Some(validate_detections(validated[1], aoi_geometry,
                                               protected_zones))
    /\ UNCHANGED <<jobvars, mlvars, geojson_data, protected_zones, detections,
                   aoi_geometry, validated>>

(***************************************************************************)
(* Specifications                                                          *)
(***************************************************************************)
\* No direct call of the ML service was made.
NoServiceCalls ==
    /\ before_data = None
    /\ change_map = None
    /\ min_area_sqm = 25
    /\ extracted = [t \in Thresholds |-> None]
    /\ detections = None
    /\ aoi_geometry = Malformed
    /\ validated = None
    /\ revalidated = None

\* ValidationService.__init__ with no zones file
NoZones ==
    /\ geojson_data = <<>>
    /\ protected_zones = load_protected_zones(geojson_data)

Idle ==
    /\ jobs = <<>>
    /\ queue = <<>>
    /\ pc = [w \in Workers |-> "idle"]
    /\ wjob = [w \in Workers |-> None]
    /\ err = [w \in Workers |-> None]
    /\ cog_url = [w \in Workers |-> None]
    /\ vector_url = [w \in Workers |-> None]
    /\ satellite_type = [w \in Workers |-> "none"]
    /\ outcome = [w \in Workers |-> "none"]
    /\ now = 0
    /\ cancel_requested = [j \in JobIds |-> FALSE]

Init ==
    /\ Idle
    /\ catalog \in JobCatalogs
    /\ query = None
    /\ selected = None
    /\ model_loaded \in BOOLEAN
    /\ NoServiceCalls
    /\ NoZones

\* The steps of the task, run by worker w.
Task(w) ==
    \/ Start(w)
    \/ Bbox(w)
    \/ Search(w)
    \/ LoadBefore(w)
    \/ LoadAfter(w)
    \/ Infer(w)
    \/ Validate(w)
    \/ SaveCog(w)
    \/ SaveGeojson(w)
    \/ \E committed \in BOOLEAN : SaveDb(w, committed)
    \/ Final(w)
    \/ StageRaises(w)
    \/ JobTimeout(w)
    \/ HandleFailure(w)

\* The calls that reach the job table and the queue from outside the task.
Service ==
    \/ \E j \in JobIds, q \in JobQueries, queued \in BOOLEAN : CreateJob(j, q, queued)
    \/ \E j \in JobIds : RequeuePending(j)
    \/ \E j \in JobIds : cancel_job(j)
    \/ \E j \in JobIds, em \in MarkFailedMessages : MarkJobFailed(j, em)
    \/ Tick

Patch ==
    \E j \in JobIds, st \in PatchStatuses, pr \in PatchProgress :
        PatchStatus(j, StatusUpdate(st, pr, None, None, None))

\* One worker process serves the queue; every endpoint is open.
SingleWorker == {"w1"}

Next ==
    \/ Service
    \/ Patch
    \/ \E w \in SingleWorker : Dequeue(w)
    \/ \E w \in Workers : Task(w)

Spec == Init /\ [][Next]_vars

\* A pool of workers serves the queue.
NextPool ==
    \/ Service
    \/ \E w \in Workers : Dequeue(w)
    \/ \E w \in Workers : Task(w)

SpecPool == Init /\ [][NextPool]_vars

\* One worker serves the queue, no call reaches a job from outside its run,
\* and the commit of the except block's update can fail. A worker that is
\* inside a task executes its next statement.
RunStep(w) == Task(w) \/ HandleFailureRolledBack(w)

NextLive ==
    \/ \E j \in JobIds, q \in JobQueries, queued \in BOOLEAN : CreateJob(j, q, queued)
    \/ \E j \in JobIds : RequeuePending(j)
    \/ \E w \in SingleWorker : Dequeue(w)
    \/ \E w \in Workers : RunStep(w)

SpecLive ==
    Init /\ [][NextLive]_vars /\ \A w \in Workers : WF_vars(RunStep(w))

InitSelect ==
    /\ Idle
    /\ catalog \in Catalogs
    /\ query \in {Some(q) : q \in Queries}
    /\ selected = None
    /\ model_loaded = FALSE
    /\ NoServiceCalls
    /\ NoZones

NextSelect == SelectPair

SpecSelect == InitSelect /\ [][NextSelect]_vars

\* Direct calls of the fallback on one image.
InitFallback ==
    /\ Idle
    /\ catalog = EmptyCatalog
    /\ query = None
    /\ selected = None
    /\ model_loaded = FALSE
    /\ before_data \in {Some(Image(n, n)) : n \in ImageSides}
    /\ change_map = None
    /\ min_area_sqm = 25
    /\ extracted = [t \in Thresholds |-> None]
    /\ detections = None
    /\ aoi_geometry = Malformed
    /\ validated = None
    /\ revalidated = None
    /\ NoZones

NextFallback == simple_difference_detection

SpecFallback == InitFallback /\ [][NextFallback]_vars

\* Direct calls of validate_detections on a constructed ValidationService.
InitValidate ==
    /\ Idle
    /\ catalog = EmptyCatalog
    /\ query = None
    /\ selected = None
    /\ model_loaded = FALSE
    /\ before_data = None
    /\ change_map = None
    /\ min_area_sqm = 25
    /\ extracted = [t \in Thresholds |-> None]
    /\ geojson_data \in ZoneFiles
    /\ protected_zones = load_protected_zones(geojson_data)
    /\ detections \in {Some(d) : d \in DetectionLists}
    /\ aoi_geometry \in Polygons \cup {Malformed}
    /\ validated = None
    /\ revalidated = None

NextValidate ==
    \/ ValidateDetections
    \/ ValidateAgain

SpecValidate == InitValidate /\ [][NextValidate]_vars

\* Direct calls of postprocess_results on one change map, one call for each
\* threshold.
InitExtract ==
    /\ Idle
    /\ catalog = EmptyCatalog
    /\ query = None
    /\ selected = None
    /\ model_loaded = FALSE
    /\ \E height \in RasterRows, width \in 1..MaxCols :
           /\ before_data = Some(Image(height, width))
           /\ change_map \in {Some(Returned(m)) : m \in Rasters(height, width)}
    /\ min_area_sqm \in MinAreas
    /\ extracted = [t \in Thresholds |-> None]
    /\ detections = None
    /\ aoi_geometry = Malformed
    /\ validated = None
    /\ revalidated = None
    /\ NoZones

NextExtract == \E t \in Thresholds : PostprocessResults(t)

SpecExtract == InitExtract /\ [][NextExtract]_vars

(***************************************************************************)
(* Properties                                                              *)
(***************************************************************************)
CANCELLED == "CANCELLED"
Terminal == {COMPLETED, FAILED, CANCELLED}

AllowedTransitions ==
    { <<PENDING, PROCESSING>>, <<PROCESSING, COMPLETED>>, <<PROCESSING, FAILED>>,
      <<PROCESSING, CANCELLED>>, <<PENDING, CANCELLED>> }

\* s contains t
Contains(s, t) ==
    \E i \in 1..(Len(s) - Len(t) + 1) : SubSeq(s, i, i + Len(t) - 1) = t

\* C1: every change of a job's status is one of the five allowed transitions;
\* any other requested transition leaves the status as it was.
C1_OnlyAllowedTransitions ==
    [][\A j \in DOMAIN jobs :
          jobs'[j].status # jobs[j].status =>
              <<jobs[j].status, jobs'[j].status>> \in AllowedTransitions]_vars

\* The fields of a row that a terminal job keeps.
Settled(job) ==
    <<job.status, job.progress, job.error_message, job.result_cog_url,
      job.vector_results_url, job.completed_at>>

\* C2: once a job's status is terminal, no later step changes its status,
\* progress, error_message, result references or completed_at.
C2_TerminalNeverMutated ==
    [][\A j \in DOMAIN jobs :
          jobs[j].status \in Terminal => Settled(jobs'[j]) = Settled(jobs[j])]_vars

\* C3: while a run of a job is in progress, no step lowers the persisted
\* progress, the step that records the failure of the run included.
C3_ProgressNeverDecreases ==
    [][\A j \in DOMAIN jobs :
          InRun(j) => jobs'[j].progress >= jobs[j].progress]_vars

\* C4: after a cancellation was requested during a run, the next step of
\* that run stops it with status CANCELLED and stores no artifact.
C4_CancelStopsRun ==
    [][\A w \in Workers :
          (/\ wjob[w] # None
           /\ cancel_requested[wjob[w][1]]
           /\ pc'[w] # pc[w])
              => /\ pc'[w] = "idle"
                 /\ jobs'[wjob[w][1]].status = CANCELLED
                 /\ cog_url'[w] = cog_url[w]
                 /\ vector_url'[w] = vector_url[w]]_vars

C6_NoPartialSuccess ==
    [][\A w \in Workers :
          (pc[w] \in {"final", "handler"} /\ pc'[w] = "idle") =>
              LET job == jobs'[wjob[w][1]]
              IN  /\ job.status = COMPLETED =>
                         job.result_cog_url # None /\ job.vector_results_url # None
                  /\ job.status = FAILED =>
                         job.result_cog_url = None /\ job.vector_results_url = None]_vars

\* C7: no two workers are inside the task for the same job id.
C7_AtMostOneWorkerPerJob ==
    \A w1, w2 \in Workers :
        (w1 # w2 /\ pc[w1] # "idle" /\ pc[w2] # "idle") => wjob[w1] # wjob[w2]

\* Some item of the collection lies within `days` of the target date (and,
\* for the optical collection, under the cloud limit).
Yields(cat, collection, target, days, cloud_cover_max) ==
    \E i \in DOMAIN cat :
        /\ cat[i][1] = collection
        /\ cat[i][2] - target <= days
        /\ target - cat[i][2] <= days
        /\ collection = OPTICAL => cat[i][3] < cloud_cover_max

OpticalPair(cat, q) ==
    /\ Yields(cat, OPTICAL, q.date_from, OpticalWindowDays, q.cloud_cover_max)
    /\ Yields(cat, OPTICAL, q.date_to, OpticalWindowDays, q.cloud_cover_max)

SarPair(cat, q) ==
    /\ Yields(cat, SAR, q.date_from, SarWindowDays, q.cloud_cover_max)
    /\ Yields(cat, SAR, q.date_to, SarWindowDays, q.cloud_cover_max)

\* C8: the selection is an optical pair exactly when both optical windows
\* yield a candidate, else a SAR pair exactly when both SAR windows do, else
\* NotFound; both images of a pair belong to the family the pair is tagged with.
C8_SelectionCascade ==
    selected # None =>
        LET r == selected[1]
            q == query[1]
        IN  /\ r.satellite_type = "sentinel-2" <=> OpticalPair(catalog, q)
            /\ r.satellite_type = "sentinel-1" <=>
                   (~OpticalPair(catalog, q) /\ SarPair(catalog, q))
            /\ r = NotFound <=> (~OpticalPair(catalog, q) /\ ~SarPair(catalog, q))
            /\ r.satellite_type = "sentinel-2" =>
                   r.before.collection = OPTICAL /\ r.after.collection = OPTICAL
            /\ r.satellite_type = "sentinel-1" =>
                   r.before.collection = SAR /\ r.after.collection = SAR
            /\ r.satellite_type \in {"sentinel-1", "sentinel-2", "none"}

\* A SAR pair was selected although the catalog also holds an optical item.
C8_Witness ==
    /\ selected # None
    /\ selected[1].satellite_type = "sentinel-1"
    /\ \E i \in DOMAIN catalog : catalog[i][1] = OPTICAL
    /\ ~OpticalPair(catalog, query[1])

\* No window of either collection yields a candidate for the job's dates.
NoCandidates(job) ==
    LET q == [date_from |-> job.date_from, date_to |-> job.date_to,
              cloud_cover_max |-> job.cloud_cover_threshold]
    IN  /\ ~Yields(catalog, OPTICAL, q.date_from, OpticalWindowDays, q.cloud_cover_max)
        /\ ~Yields(catalog, OPTICAL, q.date_to, OpticalWindowDays, q.cloud_cover_max)
        /\ ~Yields(catalog, SAR, q.date_from, SarWindowDays, q.cloud_cover_max)
        /\ ~Yields(catalog, SAR, q.date_to, SarWindowDays, q.cloud_cover_max)

C10_DistinctAcquisitions ==
    (selected # None /\ selected[1] # NotFound) =>
        selected[1].before.id # selected[1].after.id

\* C11: a catalog error raised by a search of a run is retried inside pair
\* selection: the first error of the run leaves the run in the search instead
\* of sending it to the except block that marks the job FAILED.
C11_SearchErrorRetried ==
    [][\A w \in Workers :
          (pc[w] = "search" /\ err[w] = None /\ err'[w] = Some(StageError))
              => pc'[w] = "search"]_vars

\* C12: a run that exceeded its wall-clock budget ends with its job FAILED
\* and the error_message "timeout".
C12_TimeoutEndsRunFailed ==
    [][\A w \in Workers :
          (pc[w] = "handler" /\ err[w] = Some(JobTimeoutError) /\ pc'[w] = "idle") =>
              /\ jobs'[wjob[w][1]].status = FAILED
              /\ jobs'[wjob[w][1]].error_message = Some("timeout")]_vars

\* C13: when no trained model is loaded, the inference stage completes with
\* the fallback algorithm and the run goes on to validation; the absence of
\* the model never sends the run to the except block that marks the job FAILED.
C13_FallbackCompletes ==
    [][\A w \in Workers :
          (/\ pc[w] = "infer" /\ pc'[w] # "infer"
           /\ ~model_loaded
           /\ err'[w] \notin {Some(StageError), Some(JobTimeoutError)})
              => pc'[w] = "validate" /\ jobs'[wjob[w][1]].status # FAILED]_vars

\* C14: the fallback change map is a function of the before/after data: a
\* later run of the fallback on the same images returns the same raster as
\* the run before it.
C14_FallbackDeterministic ==
    [][(change_map # None /\ change_map' # None /\ before_data' = before_data)
          => change_map' = change_map]_vars

\* The fields of a detection other than flagged and flag_reasons.
Frame(d) == <<d.geometry, d.confidence_score, d.area_sqm, d.change_type>>

\* Some feature of the zones file intersects both geometries.
ZoneMeets(aoi, geometry) ==
    \E i \in DOMAIN geojson_data :
        /\ intersects(shape(geojson_data[i].geometry), shape(aoi))
        /\ intersects(shape(geojson_data[i].geometry), shape(geometry))

\* C15: validate_detections returns the detections it was given, as many and
\* in the same order, with the same fields and the same geometry,
\* confidence, area and change type; only flagged and flag_reasons may differ.
C15_ValidateFrame ==
    validated # None =>
        /\ Len(validated[1]) = Len(detections[1])
        /\ \A i \in DOMAIN detections[1] :
               /\ DOMAIN validated[1][i] = DOMAIN detections[1][i]
               /\ Frame(validated[1][i]) = Frame(detections[1][i])

\* Two detections of different geometry were validated against a zones file
\* with a zone that intersects the AOI and the first detection.
C15_Witness ==
    /\ validated # None
    /\ Len(validated[1]) = 2
    /\ validated[1][1].geometry # validated[1][2].geometry
    /\ ~ShapeRaises(aoi_geometry)
    /\ ZoneMeets(aoi_geometry, validated[1][1].geometry)

\* The reasons the zones of the file give for a detection: one entry per
\* zone that intersects the AOI and the detection, in the order of the file.
ZoneReasons(d, aoi, features) ==
    LET Hit(f) == /\ intersects(shape(f.geometry), shape(aoi))
                  /\ intersects(shape(f.geometry), shape(d.geometry))
        hits == SelectSeq(features, Hit)
    IN  [k \in DOMAIN hits |-> "Intersects " \o hits[k].properties.zone_type]

\* C16: when a zone of the file intersects the AOI, a validated detection is
\* flagged exactly when it intersects such a zone, and its flag_reasons are
\* "Intersects <zone_type>" for each of those zones in the order of the file.
C16_FlaggedIffIntersects ==
    (/\ validated # None
     /\ ~ShapeRaises(aoi_geometry)
     /\ \E i \in DOMAIN geojson_data :
            intersects(shape(geojson_data[i].geometry), shape(aoi_geometry)))
        => \A i \in DOMAIN validated[1] :
               LET reasons == ZoneReasons(detections[1][i], aoi_geometry, geojson_data)
               IN  /\ validated[1][i].flagged = (reasons # <<>>)
                   /\ validated[1][i].flag_reasons = reasons

\* C17: when no zone of the file intersects the AOI, every validated
\* detection has flagged = false and no flag_reasons.
C17_NoZoneNoFlag ==
    (/\ validated # None
     /\ \A i \in DOMAIN geojson_data :
            ~intersects(shape(geojson_data[i].geometry), shape(aoi_geometry)))
        => \A i \in DOMAIN validated[1] :
               /\ validated[1][i].flagged = FALSE
               /\ validated[1][i].flag_reasons = <<>>

\* Two detections were validated for an AOI that the zones of a non-empty
\* file do not reach.
C17_Witness ==
    /\ validated # None
    /\ Len(validated[1]) = 2
    /\ geojson_data # <<>>
    /\ ~ShapeRaises(aoi_geometry)
    /\ \A i \in DOMAIN geojson_data :
           ~intersects(shape(geojson_data[i].geometry), shape(aoi_geometry))

\* flagged and flag_reasons of a detection.
Flags(d) == <<d.flagged, d.flag_reasons>>

\* C18: validate_detections applied to its own result, with the same AOI and
\* the same zones, gives every detection the flagged and flag_reasons the
\* first application gave it.
C18_ValidateIdempotent ==
    revalidated # None =>
        /\ Len(revalidated[1]) = Len(validated[1])
        /\ \A i \in DOMAIN validated[1] :
               Flags(revalidated[1][i]) = Flags(validated[1][i])

\* A list of two detections went through validate_detections twice, with a
\* zone of the file intersecting the AOI and the second detection.
C18_Witness ==
    /\ revalidated # None
    /\ Len(revalidated[1]) = 2
    /\ ~ShapeRaises(aoi_geometry)
    /\ ZoneMeets(aoi_geometry, detections[1][2].geometry)

\* The regions of the change map above a threshold.
RegionsAbove(t) ==
    LET raster == change_map[1].value
    IN  label({p \in Pixels(raster) : raster[p[1]][p[2]] > t})

\* The area of a region: its pixel count times the pixel area.
RegionArea(region) ==
    Cardinality(region) * abs(before_data[1].resolution[1] * before_data[1].resolution[2])

\* C19: every detection postprocess_results returns has area_sqm >=
\* min_area_sqm, its area_sqm is the area of a region, and no region of at
\* least min_area_sqm is left out: a region of exactly min_area_sqm is kept.
C19_MinAreaKept ==
    \A t \in Thresholds :
        extracted[t] # None =>
            LET regions == RegionsAbove(t)
                result == extracted[t][1]
            IN  /\ \A i \in DOMAIN result :
                       /\ result[i].area_sqm >= min_area_sqm
                       /\ \E k \in DOMAIN regions :
                              result[i].area_sqm = RegionArea(regions[k])
                /\ Len(result) =
                       Cardinality({k \in DOMAIN regions :
                                       RegionArea(regions[k]) >= min_area_sqm})

\* A call returned a detection of exactly min_area_sqm and left out a
\* smaller region.
C19_Witness ==
    \E t \in Thresholds :
        /\ extracted[t] # None
        /\ \E i \in DOMAIN extracted[t][1] : extracted[t][1][i].area_sqm = min_area_sqm
        /\ Len(extracted[t][1]) < Len(RegionsAbove(t))

\* C20: for thresholds t1 < t2 and the same min_area_sqm, the call with t1
\* returns at least as many detections as the call with t2.
C20_CountMonotone ==
    \A t1, t2 \in Thresholds :
        (t1 < t2 /\ extracted[t1] # None /\ extracted[t2] # None) =>
            Len(extracted[t1][1]) >= Len(extracted[t2][1])

RECURSIVE TotalArea(_)
TotalArea(dets) ==
    IF dets = <<>> THEN 0 ELSE Head(dets).area_sqm + TotalArea(Tail(dets))

\* C20 as amended: for thresholds t1 < t2 and the same min_area_sqm, the
\* detections of the call with t1 have at least the total area_sqm of the
\* detections of the call with t2.
C20_AreaMonotone ==
    \A t1, t2 \in Thresholds :
        (t1 < t2 /\ extracted[t1] # None /\ extracted[t2] # None) =>
            TotalArea(extracted[t1][1]) >= TotalArea(extracted[t2][1])

\* Both calls returned, and the lower threshold merged regions of the higher
\* one: fewer detections of more area.
C20_Witness ==
    \E t1, t2 \in Thresholds :
        /\ t1 < t2
        /\ extracted[t1] # None
        /\ extracted[t2] # None
        /\ Len(extracted[t1][1]) < Len(extracted[t2][1])
        /\ TotalArea(extracted[t1][1]) > TotalArea(extracted[t2][1])

\* C21: a job carries an error_message only while its status is FAILED, and
\* the message of a user cancellation is never stored on a FAILED job.
C21_ErrorMessageOnlyWhenFailed ==
    \A j \in DOMAIN jobs :
        jobs[j].error_message # None =>
            /\ jobs[j].status = FAILED
            /\ jobs[j].error_message # Some(CancelledByUser)

\* The progress the task has written when it stands at a position: the value
\* of the update that follows the stage before it.
CheckpointAt == [search |-> 10, load_before |-> 20, load_after |-> 35,
                 infer |-> 50, validate |-> 75, save_cog |-> 85, final |-> 100]

\* The position a position is entered from when no statement raises.
EnteredFrom == [search |-> "bbox", load_before |-> "search",
                load_after |-> "load_before", infer |-> "load_after",
                validate |-> "infer", save_cog |-> "validate",
                save_geojson |-> "save_cog", save_db |-> "save_geojson",
                final |-> "save_db"]

Eligible(cat, collection, target, days, cloud_cover_max) ==
    {x \in {item_info(cat, i) : i \in DOMAIN cat} :
        /\ x.collection = collection
        /\ abs(x.datetime - target) <= days
        /\ collection = OPTICAL => x.cloud_cover <= cloud_cover_max}

\* x is the least cloudy item of the set and, among its least cloudy items,
\* one closest in time to the target date.
LeastCloudyNearest(x, eligible, target) ==
    /\ x \in eligible
    /\ \A y \in eligible : y.cloud_cover >= x.cloud_cover
    /\ \A y \in eligible :
           y.cloud_cover = x.cloud_cover =>
               abs(y.datetime - target) >= abs(x.datetime - target)

\* C23: when both optical windows hold an item at or under the cloud
\* threshold the pair is optical, and the item chosen for a window is its
\* least cloudy eligible item, the one closest to the target date among
\* items of equal cloud cover.
C23_OpticalLeastCloudy ==
    selected # None =>
        LET r == selected[1]
            q == query[1]
            before == Eligible(catalog, OPTICAL, q.date_from, OpticalWindowDays,
                               q.cloud_cover_max)
            after == Eligible(catalog, OPTICAL, q.date_to, OpticalWindowDays,
                              q.cloud_cover_max)
        IN  /\ (before # {} /\ after # {}) => r.satellite_type = "sentinel-2"
            /\ r.satellite_type = "sentinel-2" =>
                   /\ LeastCloudyNearest(r.before, before, q.date_from)
                   /\ LeastCloudyNearest(r.after, after, q.date_to)

\* C24: the SAR item chosen for a window is one whose acquisition date is
\* nearest to the window's target date, before or after it.
C24_SarNearest ==
    selected # None =>
        LET r == selected[1]
            q == query[1]
            before == Eligible(catalog, SAR, q.date_from, SarWindowDays,
                               DefaultCloudCoverMax)
            after == Eligible(catalog, SAR, q.date_to, SarWindowDays,
                              DefaultCloudCoverMax)
        IN  r.satellite_type = "sentinel-1" =>
                /\ r.before \in before
                /\ r.after \in after
                /\ \A y \in before :
                       abs(y.datetime - q.date_from) >= abs(r.before.datetime - q.date_from)
                /\ \A y \in after :
                       abs(y.datetime - q.date_to) >= abs(r.after.datetime - q.date_to)

\* C25: postprocess_results returns one detection for every region of at
\* least min_area_sqm, in the order of the regions, and the polygon of a
\* detection covers pixels of its region only: it is a largest 4-connected
\* part of the region, never the pixels around it.
C25_PolygonOutlinesRegion ==
    \A t \in Thresholds :
        extracted[t] # None =>
            LET regions == RegionsAbove(t)
                Large(region) == RegionArea(region) >= min_area_sqm
                kept == SelectSeq(regions, Large)
                result == extracted[t][1]
            IN  /\ Len(result) = Len(kept)
                /\ \A i \in DOMAIN result :
                       LET parts == Components(kept[i], 1)
                       IN  /\ result[i].geometry.coordinates \subseteq kept[i]
                           /\ \E k \in DOMAIN parts :
                                  /\ result[i].geometry.coordinates = parts[k]
                                  /\ \A n \in DOMAIN parts :
                                         Cardinality(parts[n]) <= Cardinality(parts[k])

\* C26: a stage leaves the job's status, progress and error_message as they
\* are. The steps from save_cog, save_geojson and save_db are calls of a stage
\* that no update of the task follows within the step.
C26_StagesLeaveJobState ==
    [][\A w \in Workers :
          (/\ pc[w] \in {"save_cog", "save_geojson", "save_db"}
           /\ pc'[w] # pc[w]
           /\ wjob[w] # None /\ wjob[w][1] \in DOMAIN jobs) =>
              LET j == wjob[w][1] IN
              /\ jobs'[j].status = jobs[j].status
              /\ jobs'[j].progress = jobs[j].progress
              /\ jobs'[j].error_message = jobs[j].error_message]_vars

\* C27: when DELETE /jobs/{job_id} succeeds for a PENDING job, no task for
\* that job is left in the queue, so no worker takes it up afterwards.
C27_CancelRemovesQueuedTask ==
    [][\A j \in JobIds :
          (cancel_job(j) /\ jobs[j].status = PENDING) =>
              \A i \in DOMAIN queue' : queue'[i].args # j]_vars

\* C28: a job whose status is COMPLETED has progress 100 and a completed_at.
C28_CompletedIsWhole ==
    \A j \in DOMAIN jobs :
        jobs[j].status = COMPLETED =>
            jobs[j].progress = 100 /\ jobs[j].completed_at # None

\* C29: a job that is PROCESSING eventually has a terminal status.
C29_ProcessingEnds ==
    \A j \in JobIds :
        (j \in DOMAIN jobs /\ jobs[j].status = PROCESSING)
            ~> (j \in DOMAIN jobs /\ jobs[j].status \in Terminal)

====
